---- MODULE Spec2Model ----
(***************************************************************************)
(* docman: the citation manager of src/main.cpp with the citation records  *)
(* of src/citation.h, src/book.cpp, src/webpage.cpp and the Article of     *)
(* src/unnamed/part_003.                                                   *)
(*                                                                         *)
(* A std::string is a sequence of one-character strings; a string literal  *)
(* of the source that is written in one piece is a single element.         *)
(* A JSON value is a record [jk |-> kind, jv |-> payload].                   *)
(***************************************************************************)
EXTENDS Integers, Sequences, FiniteSets, TLC

\* ------------------------------------------------------------- bounds
MaxTextLen == 7      \* longest document of the text-heavy runs
MaxEntries == 2      \* most entries of a flat configuration array
MaxDepth == 3        \* deepest configuration tree of the discovery runs
MaxUriLen == 3       \* longest string given to encodeUriComponent

\* ------------------------------------------------------------- strings
\* the characters a document is written with, and the other characters of
\* the modelled strings
TextChars == {"[", "]", "a"}

\* the code of a character (std::string compares by unsigned char value)
Code(c) ==
    CASE c = "\n" -> 10
      [] c = " " -> 32
      [] c = "!" -> 33
      [] c = "-" -> 45
      [] c = "/" -> 47
      [] c = "5" -> 53
      [] c = ":" -> 58
      [] c = "[" -> 91
      [] c = "]" -> 93
      [] c = "a" -> 97
      [] c = "n" -> 110
      [] c = "u" -> 117
      [] c = "x" -> 120
      [] c = "y" -> 121

\* std::string operator< : lexicographic, a proper prefix is smaller
RECURSIVE StrLess(_, _)
StrLess(s, t) ==
    IF t = <<>> THEN FALSE
    ELSE IF s = <<>> THEN TRUE
    ELSE IF Code(Head(s)) < Code(Head(t)) THEN TRUE
    ELSE IF Code(Head(s)) > Code(Head(t)) THEN FALSE
    ELSE StrLess(Tail(s), Tail(t))

\* all strings over an alphabet, up to a length
RECURSIVE StringsOfLen(_, _)
StringsOfLen(chars, n) ==
    IF n = 0 THEN {<<>>}
    ELSE {Append(s, c) : s \in StringsOfLen(chars, n - 1), c \in chars}

StringsUpTo(chars, n) == UNION {StringsOfLen(chars, m) : m \in 0..n}

\* std::string::size_type arithmetic wraps; the modulus stands for 2^64
\* (TLC's integers are 32 bits wide), far above every length of the model
SizeTMod == 1073741824

SizeSub(a, b) == (a - b + SizeTMod) % SizeTMod

\* std::string::find(ch, from): the offsets (from 0) of every occurrence of
\* ch, ascending, as the two scanning loops of main collect them
RECURSIVE FindAll(_, _, _)
FindAll(s, ch, from) ==
    IF from >= Len(s) THEN <<>>
    ELSE IF s[from + 1] = ch THEN <<from>> \o FindAll(s, ch, from + 1)
    ELSE FindAll(s, ch, from + 1)

\* std::string::substr(pos, count) for pos <= size: the characters from
\* offset pos, at most count of them
Substr(s, pos, count) ==
    LET rlen == IF count < Len(s) - pos THEN count ELSE Len(s) - pos
    IN  SubSeq(s, pos + 1, pos + rlen)

\* ------------------------------------------------------------- sort, unique
\* std::sort of a vector of strings: the ascending arrangement
RECURSIVE InsertSorted(_, _)
InsertSorted(v, s) ==
    IF v = <<>> THEN <<s>>
    ELSE IF StrLess(s, Head(v)) THEN <<s>> \o v
    ELSE <<Head(v)>> \o InsertSorted(Tail(v), s)

RECURSIVE SortStrings(_)
SortStrings(v) ==
    IF v = <<>> THEN <<>> ELSE InsertSorted(SortStrings(Tail(v)), Head(v))

\* std::adjacent_find: the first position equal to its successor, 0 if none
RECURSIVE AdjacentFind(_, _)
AdjacentFind(v, p) ==
    IF p >= Len(v) THEN 0
    ELSE IF v[p] = v[p + 1] THEN p
    ELSE AdjacentFind(v, p + 1)

\* the loop of std::unique after its adjacent_find: every element that
\* differs from the last kept one is move-assigned behind it; moved is the
\* set of positions left in the moved-from state
RECURSIVE UniqueLoop(_, _, _, _)
UniqueLoop(v, dest, first, moved) ==
    IF first > Len(v) THEN [vec |-> v, moved |-> moved]
    ELSE IF v[dest] # v[first]
         THEN UniqueLoop([v EXCEPT ![dest + 1] = v[first]], dest + 1, first + 1,
                         (moved \ {dest + 1}) \cup {first})
         ELSE UniqueLoop(v, dest, first + 1, moved)

\* std::unique(ids.begin(), ids.end()) with its result discarded: the vector
\* keeps its length. A moved-from std::string is valid but unspecified: it
\* is left empty or left with its characters.
UniqueOutcomes(v) ==
    LET p == AdjacentFind(v, 1)
        r == IF p = 0 THEN [vec |-> v, moved |-> {}]
             ELSE UniqueLoop(v, p, p + 2, {})
    IN  {[q \in 1..Len(v) |-> IF q \in S THEN <<>> ELSE r.vec[q]] :
            S \in SUBSET r.moved}

\* ------------------------------------------------------------- JSON
JStr(s) == [jk |-> "string", jv |-> s]
JInt(n) == [jk |-> "int", jv |-> n]
\* a number with a fractional part: n + 1/2
JFloat(n) == [jk |-> "float", jv |-> n]
JArr(es) == [jk |-> "array", jv |-> es]
JObj(f) == [jk |-> "object", jv |-> f]
JNull == [jk |-> "null", jv |-> <<>>]

\* the keys of the modelled objects in std::map order (nlohmann::json keeps
\* an object's members sorted by key)
KeyOrder ==
    <<"author", "id", "isbn", "issue", "journal", "k", "m", "publisher",
      "title", "type", "url", "volume", "year">>

\* json::contains(s) && j[s].is_string()
check_string(j, s) ==
    /\ j.jk = "object"
    /\ s \in DOMAIN j.jv
    /\ j.jv[s].jk = "string"

\* json::contains(s) && j[s].is_number()
check_int(j, s) ==
    /\ j.jk = "object"
    /\ s \in DOMAIN j.jv
    /\ j.jv[s].jk \in {"int", "float"}

\* json::get<int>() of a number: a fractional part is dropped
GetInt(j) == j.jv

\* json::items(): the member values of an object in key order, the elements
\* of an array, nothing for null, the value itself for any other value
Items(j) ==
    IF j.jk = "object"
    THEN LET keys == SelectSeq(KeyOrder, LAMBDA key : key \in DOMAIN j.jv)
         IN  [n \in 1..Len(keys) |-> j.jv[keys[n]]]
    ELSE IF j.jk = "array" THEN j.jv
    ELSE IF j.jk = "null" THEN <<>>
    ELSE <<j>>

\* ------------------------------------------------------------- state
VARIABLES
    argv,              \* the command line after the program name
    cfgFile,           \* what the configuration file holds
    docFile,           \* the document file: can it be opened, and its text
    stdinData,         \* what standard input holds
    responses,         \* the lookup service's answers, in request order
    outOpens,          \* can the named output file be opened
    pc,                \* where main is
    i,                 \* main's argument index
    citations,         \* the catalog
    lookupsDone,       \* requests sent to the lookup service so far
    outputPath,
    input,
    ids,
    printedCitations,  \* catalog positions (shared pointers into the catalog)
    output,            \* what printCitations wrote to its stream
    diag,              \* the diagnostics written before an exit
    self,              \* the record Clone is called on
    other,             \* Clone's argument
    cloned,            \* how the Clone call ended
    returned,          \* what the last getId call returned
    uri,               \* the string given to encodeUriComponent
    encoded            \* what encodeUriComponent returned

envVars == <<argv, cfgFile, docFile, stdinData, responses, outOpens>>
mainVars ==
    <<pc, i, citations, lookupsDone, outputPath, input, ids, printedCitations,
      output, diag>>
cloneVars == <<self, other, cloned, returned>>
encodeVars == <<uri, encoded>>
vars == <<envVars, mainVars, cloneVars, encodeVars>>

\* ------------------------------------------------------------- records
\* Book::Book(id, author, title, publisher, year)
Book(id, author, title, publisher, year) ==
    [variant |-> "Book", id |-> id, author |-> author, title |-> title,
     publisher |-> publisher, year |-> year]

\* WebPage::WebPage(id, title, url)
WebPage(id, title, url) ==
    [variant |-> "WebPage", id |-> id, title |-> title, url |-> url]

\* Article::Article that stores the title as the id
Article_IdFromTitle(id, title, author, journal, year, volume, issue) ==
    [variant |-> "Article", id |-> title, title |-> title, author |-> author,
     journal |-> journal, year |-> year, volume |-> volume, issue |-> issue]

\* Article::Article(id, title, author, journal, year, volume, issue)
Article(id, title, author, journal, year, volume, issue) ==
    [variant |-> "Article", id |-> id, title |-> title, author |-> author,
     journal |-> journal, year |-> year, volume |-> volume, issue |-> issue]

\* Citation::getId
getId(c) == c.id

\* a lookup answer: ok is "a result came back with status 200", body is the
\* parsed response body ("invalid" when it does not parse)
NoAnswer == [ok |-> FALSE, body |-> JNull]

Answer(n) == IF n <= Len(responses) THEN responses[n] ELSE NoAnswer

\* Book::Book(id, isbn) that goes on after a failed lookup, its fields empty
BookFromIsbn_PartialRecord(id, isbn, r) ==
    IF /\ r.ok
       /\ check_string(r.body, "author")
       /\ check_string(r.body, "title")
       /\ check_string(r.body, "publisher")
       /\ check_string(r.body, "year")
    THEN [exit |-> FALSE,
          c |-> Book(id, r.body.jv["author"].jv, r.body.jv["title"].jv,
                     r.body.jv["publisher"].jv, r.body.jv["year"].jv)]
    ELSE [exit |-> FALSE, c |-> Book(id, <<>>, <<>>, <<>>, <<>>)]

\* Book::Book(id, isbn): the record, or exit when the request fails, the
\* body does not parse or a field is missing or no string
BookFromIsbn(id, isbn, r) ==
    IF /\ r.ok
       /\ check_string(r.body, "author")
       /\ check_string(r.body, "title")
       /\ check_string(r.body, "publisher")
       /\ check_string(r.body, "year")
    THEN [exit |-> FALSE,
          c |-> Book(id, r.body.jv["author"].jv, r.body.jv["title"].jv,
                     r.body.jv["publisher"].jv, r.body.jv["year"].jv)]
    ELSE [exit |-> TRUE, c |-> JNull]

\* WebPage::WebPage(id, url) with the url stored as the title too
WebPageFromUrl_TitleFromUrl(id, url, r) ==
    IF r.ok /\ check_string(r.body, "title")
    THEN [exit |-> FALSE, c |-> WebPage(id, url, url)]
    ELSE [exit |-> TRUE, c |-> JNull]

\* WebPage::WebPage(id, url) that goes on without a title after a failed
\* lookup
WebPageFromUrl_UntitledOnFailure(id, url, r) ==
    IF r.ok /\ check_string(r.body, "title")
    THEN [exit |-> FALSE, c |-> WebPage(id, r.body.jv["title"].jv, url)]
    ELSE [exit |-> FALSE, c |-> WebPage(id, <<>>, url)]

\* WebPage::WebPage(id, url): the title comes from the lookup
WebPageFromUrl(id, url, r) ==
    IF r.ok /\ check_string(r.body, "title")
    THEN [exit |-> FALSE, c |-> WebPage(id, r.body.jv["title"].jv, url)]
    ELSE [exit |-> TRUE, c |-> JNull]

\* ------------------------------------------------------------- factory
\* The walk's state: the catalog so far, the requests sent so far, and
\* whether a constructor has ended the process.
\* createCitationsPointer that builds a book without isbn from its author,
\* title, publisher and year
createCitationsPointer_BookFromFields(st, j) ==
    IF ~check_string(j, "type") \/ ~check_string(j, "id")
    THEN [built |-> FALSE, cits |-> st.cits, used |-> st.used, exit |-> FALSE]
    ELSE
    LET type == j.jv["type"].jv
        id == j.jv["id"].jv
    IN  IF type = <<"book">>
        THEN IF ~check_string(j, "isbn")
             THEN IF /\ check_string(j, "author") /\ check_string(j, "title")
                     /\ check_string(j, "publisher") /\ check_string(j, "year")
                  THEN [built |-> TRUE,
                        cits |-> Append(st.cits,
                            Book(id, j.jv["author"].jv, j.jv["title"].jv,
                                 j.jv["publisher"].jv, j.jv["year"].jv)),
                        used |-> st.used, exit |-> FALSE]
                  ELSE [built |-> FALSE, cits |-> st.cits, used |-> st.used,
                        exit |-> FALSE]
             ELSE LET b == BookFromIsbn(id, j.jv["isbn"].jv, Answer(st.used + 1))
                  IN  [built |-> ~b.exit,
                       cits |-> IF b.exit THEN st.cits ELSE Append(st.cits, b.c),
                       used |-> st.used + 1, exit |-> b.exit]
        ELSE IF type = <<"webpage">>
        THEN IF ~check_string(j, "url")
             THEN [built |-> FALSE, cits |-> st.cits, used |-> st.used,
                   exit |-> FALSE]
             ELSE LET w == WebPageFromUrl(id, j.jv["url"].jv, Answer(st.used + 1))
                  IN  [built |-> ~w.exit,
                       cits |-> IF w.exit THEN st.cits ELSE Append(st.cits, w.c),
                       used |-> st.used + 1, exit |-> w.exit]
        ELSE IF type = <<"article">>
        THEN IF \/ ~check_string(j, "title") \/ ~check_string(j, "author")
                \/ ~check_string(j, "journal") \/ ~check_int(j, "year")
                \/ ~check_int(j, "volume") \/ ~check_int(j, "issue")
             THEN [built |-> FALSE, cits |-> st.cits, used |-> st.used,
                   exit |-> FALSE]
             ELSE [built |-> TRUE,
                   cits |-> Append(st.cits,
                       Article(id, j.jv["title"].jv, j.jv["author"].jv,
                               j.jv["journal"].jv, GetInt(j.jv["year"]),
                               GetInt(j.jv["volume"]), GetInt(j.jv["issue"]))),
                   used |-> st.used, exit |-> FALSE]
        ELSE [built |-> FALSE, cits |-> st.cits, used |-> st.used, exit |-> FALSE]

\* createCitationsPointer: built says whether j was a citation node
createCitationsPointer(st, j) ==
    IF ~check_string(j, "type") \/ ~check_string(j, "id")
    THEN [built |-> FALSE, cits |-> st.cits, used |-> st.used, exit |-> FALSE]
    ELSE
    LET type == j.jv["type"].jv
        id == j.jv["id"].jv
    IN  IF type = <<"book">>
        THEN IF ~check_string(j, "isbn")
             THEN [built |-> FALSE, cits |-> st.cits, used |-> st.used,
                   exit |-> FALSE]
             ELSE LET b == BookFromIsbn(id, j.jv["isbn"].jv, Answer(st.used + 1))
                  IN  [built |-> ~b.exit,
                       cits |-> IF b.exit THEN st.cits ELSE Append(st.cits, b.c),
                       used |-> st.used + 1, exit |-> b.exit]
        ELSE IF type = <<"webpage">>
        THEN IF ~check_string(j, "url")
             THEN [built |-> FALSE, cits |-> st.cits, used |-> st.used,
                   exit |-> FALSE]
             ELSE LET w == WebPageFromUrl(id, j.jv["url"].jv, Answer(st.used + 1))
                  IN  [built |-> ~w.exit,
                       cits |-> IF w.exit THEN st.cits ELSE Append(st.cits, w.c),
                       used |-> st.used + 1, exit |-> w.exit]
        ELSE IF type = <<"article">>
        THEN IF \/ ~check_string(j, "title") \/ ~check_string(j, "author")
                \/ ~check_string(j, "journal") \/ ~check_int(j, "year")
                \/ ~check_int(j, "volume") \/ ~check_int(j, "issue")
             THEN [built |-> FALSE, cits |-> st.cits, used |-> st.used,
                   exit |-> FALSE]
             ELSE [built |-> TRUE,
                   cits |-> Append(st.cits,
                       Article(id, j.jv["title"].jv, j.jv["author"].jv,
                               j.jv["journal"].jv, GetInt(j.jv["year"]),
                               GetInt(j.jv["volume"]), GetInt(j.jv["issue"]))),
                   used |-> st.used, exit |-> FALSE]
        ELSE [built |-> FALSE, cits |-> st.cits, used |-> st.used, exit |-> FALSE]

RECURSIVE createCitations(_, _)
RECURSIVE VisitElements(_, _)
RECURSIVE VisitItems(_, _)

\* the inner loop: every element of an array-valued item that is an object
VisitElements(st, es) ==
    IF es = <<>> \/ st.exit THEN st
    ELSE VisitElements(
            IF Head(es).jk = "object" THEN createCitations(st, Head(es)) ELSE st,
            Tail(es))

\* the outer loop over j.items()
VisitItems(st, items) ==
    IF items = <<>> \/ st.exit THEN st
    ELSE VisitItems(
            IF Head(items).jk = "array" THEN VisitElements(st, Head(items).jv)
            ELSE IF Head(items).jk = "object" THEN createCitations(st, Head(items))
            ELSE st,
            Tail(items))

\* createCitations that goes on below a node that was built
createCitations_VisitsBelowCitations(st, j) ==
    LET r == createCitationsPointer(st, j)
    IN  IF r.exit THEN r ELSE VisitItems(r, Items(j))

createCitations(st, j) ==
    LET r == createCitationsPointer(st, j)
    IN  IF r.exit \/ r.built THEN r ELSE VisitItems(r, Items(j))

\* ------------------------------------------------------------- rendering
\* operator<<(int): the decimal digits
Digit(d) == <<"0", "1", "2", "3", "4", "5", "6", "7", "8", "9">>[d + 1]

RECURSIVE Digits(_)
Digits(n) == IF n < 10 THEN <<Digit(n)>> ELSE Append(Digits(n \div 10), Digit(n % 10))

IntToString(n) == IF n < 0 THEN <<"-">> \o Digits(0 - n) ELSE Digits(n)

\* Book::print with the title written before the author
BookPrint_TitleFirst(c) ==
    <<"[">> \o c.id \o <<"] book: ">> \o c.title \o <<", ">> \o c.author
        \o <<", ">> \o c.publisher \o <<", ">> \o c.year \o <<"\n">>

\* Book::print
BookPrint(c) ==
    <<"[">> \o c.id \o <<"] book: ">> \o c.author \o <<", ">> \o c.title
        \o <<", ">> \o c.publisher \o <<", ">> \o c.year \o <<"\n">>

\* WebPage::print
WebPagePrint(c) ==
    <<"[">> \o c.id \o <<"] webpage: ">> \o c.title \o <<". Available at ">>
        \o c.url \o <<"\n">>

\* the loop of Article::print over the characters of author
RECURSIVE EachFollowedByComma(_)
EachFollowedByComma(s) ==
    IF s = <<>> THEN <<>>
    ELSE <<Head(s), ", ">> \o EachFollowedByComma(Tail(s))

\* Article::print, written to the stream the declaration of article.h takes
ArticlePrint(c) ==
    <<"[">> \o c.id \o <<"] article: ">> \o EachFollowedByComma(c.author)
        \o c.title \o <<", ">> \o c.journal \o <<", ">> \o IntToString(c.year)
        \o <<", ">> \o IntToString(c.volume) \o <<", ">> \o IntToString(c.issue)
        \o <<"\n">>

\* the virtual call c->print(output)
print(c) ==
    IF c.variant = "Book" THEN BookPrint(c)
    ELSE IF c.variant = "WebPage" THEN WebPagePrint(c)
    ELSE ArticlePrint(c)

RECURSIVE PrintAll(_, _)
PrintAll(cits, printed) ==
    IF printed = <<>> THEN <<>>
    ELSE print(cits[Head(printed)]) \o PrintAll(cits, Tail(printed))

\* printCitations with the header written inside the loop, once per citation
RECURSIVE HeaderAndPrintAll(_, _)
HeaderAndPrintAll(cits, printed) ==
    IF printed = <<>> THEN <<>>
    ELSE <<"\n\nReferences:\n">> \o print(cits[Head(printed)])
            \o HeaderAndPrintAll(cits, Tail(printed))

printCitations_HeaderInLoop(cits, printed, text) ==
    text \o HeaderAndPrintAll(cits, printed)

\* printCitations: the text, the header, one print per printed citation
printCitations(cits, printed, text) ==
    text \o <<"\n\nReferences:\n">> \o PrintAll(cits, printed)

\* ------------------------------------------------------------- main
\* std::getline that reads to the end of standard input
FirstLine_WholeInput(s) == s

\* std::getline(std::cin, input, '\n'): the characters before the first
\* newline
RECURSIVE FirstLine(_)
FirstLine(s) ==
    IF s = <<>> \/ Head(s) = "\n" THEN <<>>
    ELSE <<Head(s)>> \o FirstLine(Tail(s))

\* the for loop's test after a pass that left the index at n
AfterPass(n) == IF n > Len(argv) THEN "scan" ELSE "args"

\* std::exit(1), with the diagnostic written before it (if any)
Exit1(msg) ==
    /\ pc' = "exit1"
    /\ diag' = diag \o msg

\* std::ifstream file{filename}; file >> data: what the named file holds.
\* The file named "none" holds an empty array, any other name is the
\* configuration file.
FileNamed(filename) == IF filename = "none" THEN JArr(<<>>) ELSE cfgFile

\* loadCitations: the walk's result, or exit for a file that cannot be
\* opened, does not parse (the exception is caught in main) or holds null
loadCitations(filename) ==
    IF FileNamed(filename).jk \in {"unreadable", "malformed", "null"}
    THEN [built |-> FALSE, cits |-> <<>>, used |-> lookupsDone, exit |-> TRUE]
    ELSE createCitations(
            [built |-> FALSE, cits |-> <<>>, used |-> lookupsDone, exit |-> FALSE],
            FileNamed(filename))

\* a pass of the loop at "-c"
ArgConfig ==
    /\ pc = "args"
    /\ argv[i] = "-c"
    /\ IF i = Len(argv) \/ citations # <<>>
       THEN /\ Exit1(<<>>)
            /\ UNCHANGED <<i, citations, lookupsDone>>
       ELSE LET st == loadCitations(argv[i + 1])
            IN  IF st.exit
                THEN /\ Exit1(IF FileNamed(argv[i + 1]).jk = "unreadable"
                              THEN <<"cannot open">>
                              ELSE <<>>)
                     /\ lookupsDone' = st.used
                     /\ UNCHANGED <<i, citations>>
                ELSE /\ citations' = st.cits
                     /\ lookupsDone' = st.used
                     /\ i' = i + 2
                     /\ pc' = AfterPass(i + 2)
                     /\ diag' = diag
    /\ UNCHANGED <<outputPath, input, ids, printedCitations, output>>
    /\ UNCHANGED <<envVars, cloneVars, encodeVars>>

\* a pass of the loop at "-o"
ArgOutput ==
    /\ pc = "args"
    /\ argv[i] = "-o"
    /\ IF i = Len(argv) \/ outputPath # ""
       THEN /\ Exit1(<<>>)
            /\ UNCHANGED <<i, outputPath>>
       ELSE /\ outputPath' = argv[i + 1]
            /\ i' = i + 2
            /\ pc' = AfterPass(i + 2)
            /\ diag' = diag
    /\ UNCHANGED <<citations, lookupsDone, input, ids, printedCitations, output>>
    /\ UNCHANGED <<envVars, cloneVars, encodeVars>>

\* a pass of the loop at the last argument: standard input or readFromFile
ArgInput ==
    /\ pc = "args"
    /\ argv[i] \notin {"-c", "-o"}
    /\ i = Len(argv)
    /\ IF argv[i] = "-"
       THEN /\ input' = FirstLine(stdinData)
            /\ i' = i + 1
            /\ pc' = AfterPass(i + 1)
            /\ diag' = diag
       ELSE IF docFile.readable
       THEN /\ input' = docFile.text
            /\ i' = i + 1
            /\ pc' = AfterPass(i + 1)
            /\ diag' = diag
       ELSE /\ Exit1(<<"cannot open">>)
            /\ UNCHANGED <<i, input>>
    /\ UNCHANGED <<citations, lookupsDone, outputPath, ids, printedCitations, output>>
    /\ UNCHANGED <<envVars, cloneVars, encodeVars>>

\* a pass of the loop at any other argument
ArgOther ==
    /\ pc = "args"
    /\ argv[i] \notin {"-c", "-o"}
    /\ i # Len(argv)
    /\ Exit1(<<>>)
    /\ UNCHANGED <<i, citations, lookupsDone, outputPath, input, ids,
                   printedCitations, output>>
    /\ UNCHANGED <<envVars, cloneVars, encodeVars>>

\* the extraction loop from pass n on: the i-th "[" is paired with the i-th
\* "]"; exit when a "]" lies behind the next "["
RECURSIVE ExtractFrom(_, _, _, _, _)
ExtractFrom(text, left, right, n, acc) ==
    IF n > Len(left) THEN [exit |-> FALSE, ids |-> acc]
    ELSE IF n < Len(left) /\ right[n] > left[n + 1]
    THEN [exit |-> TRUE, ids |-> acc]
    ELSE ExtractFrom(text, left, right, n + 1,
            Append(acc, Substr(text, left[n] + 1,
                               SizeSub(SizeSub(right[n], left[n]), 1))))

\* the two scans, the bracket count test and the extraction loop
ExtractIds(text) ==
    LET left == FindAll(text, "[", 0)
        right == FindAll(text, "]", 0)
    IN  IF Len(left) = 0 \/ Len(right) = 0 \/ Len(left) # Len(right)
        THEN [exit |-> TRUE, ids |-> <<>>]
        ELSE ExtractFrom(text, left, right, 1, <<>>)

Scan ==
    /\ pc = "scan"
    /\ LET r == ExtractIds(input)
       IN  IF r.exit
           THEN /\ Exit1(<<>>)
                /\ ids' = ids
           ELSE /\ ids' = r.ids
                /\ pc' = "sort"
                /\ diag' = diag
    /\ UNCHANGED <<i, citations, lookupsDone, outputPath, input,
                   printedCitations, output>>
    /\ UNCHANGED <<envVars, cloneVars, encodeVars>>

\* std::sort, then std::unique
SortUnique ==
    /\ pc = "sort"
    /\ ids' \in UniqueOutcomes(SortStrings(ids))
    /\ pc' = "resolve"
    /\ UNCHANGED <<i, citations, lookupsDone, outputPath, input,
                   printedCitations, output, diag>>
    /\ UNCHANGED <<envVars, cloneVars, encodeVars>>

\* the inner loop: the catalog positions from n on whose id is id
RECURSIVE MatchesFrom(_, _, _)
MatchesFrom(cits, id, n) ==
    IF n > Len(cits) THEN <<>>
    ELSE IF getId(cits[n]) = id THEN <<n>> \o MatchesFrom(cits, id, n + 1)
    ELSE MatchesFrom(cits, id, n + 1)

\* the outer loop over ids
RECURSIVE FindCitations(_, _)
FindCitations(cits, idList) ==
    IF idList = <<>> THEN <<>>
    ELSE MatchesFrom(cits, Head(idList), 1) \o FindCitations(cits, Tail(idList))

\* Resolve with the text and the header written before the sizes are tested
Resolve_WritesBeforeTest ==
    /\ pc = "resolve"
    /\ printedCitations' = FindCitations(citations, ids)
    /\ output' = input \o <<"\n\nReferences:\n">>
    /\ IF Len(ids) # Len(printedCitations')
       THEN Exit1(<<>>)
       ELSE /\ pc' = "print"
            /\ diag' = diag
    /\ UNCHANGED <<i, citations, lookupsDone, outputPath, input, ids>>
    /\ UNCHANGED <<envVars, cloneVars, encodeVars>>

\* the lookup of the ids in the catalog and the test of the two sizes
Resolve ==
    /\ pc = "resolve"
    /\ printedCitations' = FindCitations(citations, ids)
    /\ IF Len(ids) # Len(printedCitations')
       THEN Exit1(<<>>)
       ELSE /\ pc' = "print"
            /\ diag' = diag
    /\ UNCHANGED <<i, citations, lookupsDone, outputPath, input, ids, output>>
    /\ UNCHANGED <<envVars, cloneVars, encodeVars>>

\* the output: std::cout, or the named file; a std::ofstream that did not
\* open drops what is written to it
WriteOutput ==
    /\ pc = "print"
    /\ output' = IF outputPath = "" \/ outOpens
                 THEN printCitations(citations, printedCitations, input)
                 ELSE output
    /\ pc' = "exit0"
    /\ UNCHANGED <<i, citations, lookupsDone, outputPath, input, ids,
                   printedCitations, diag>>
    /\ UNCHANGED <<envVars, cloneVars, encodeVars>>

\* ------------------------------------------------------------- inputs
Title == <<"x">>
LookedUpTitle == <<"y">>
Url == <<"u">>
Isbn == <<"n">>

WebEntry(id) ==
    JObj([type |-> JStr(<<"webpage">>), id |-> JStr(id), title |-> JStr(Title),
          url |-> JStr(Url)])

BookEntry(id) ==
    JObj([type |-> JStr(<<"book">>), id |-> JStr(id), isbn |-> JStr(Isbn)])

ArticleEntry(id) ==
    JObj([type |-> JStr(<<"article">>), id |-> JStr(id), title |-> JStr(Title),
          author |-> JStr(<<"a", "u">>), journal |-> JStr(<<"n">>),
          year |-> JInt(7), volume |-> JInt(12), issue |-> JInt(3)])

EntrySet ==
    {WebEntry(<<"a">>), WebEntry(<<>>), BookEntry(<<"a">>), ArticleEntry(<<"a">>)}

RECURSIVE SeqsOfLen(_, _)
SeqsOfLen(S, n) ==
    IF n = 0 THEN {<<>>}
    ELSE {Append(s, e) : s \in SeqsOfLen(S, n - 1), e \in S}

\* the flat configurations: an array of at most MaxEntries entries
FlatConfigs == {JArr(es) : es \in UNION {SeqsOfLen(EntrySet, n) : n \in 0..MaxEntries}}

\* a lookup answer with every field of a book and of a page
FullBody ==
    JObj([author |-> JStr(<<"a">>), title |-> JStr(LookedUpTitle),
          publisher |-> JStr(<<"u">>), year |-> JStr(<<"1">>)])

OkAnswer == [ok |-> TRUE, body |-> FullBody]

\* status 200 with a title that is no string
BadAnswer == [ok |-> TRUE, body |-> JObj([title |-> JInt(1)])]

AnswerSet == {OkAnswer, NoAnswer, BadAnswer}

AllOk == [n \in 1..MaxEntries |-> OkAnswer]

Doc(text) == [readable |-> TRUE, text |-> text]
NoDoc == [readable |-> FALSE, text |-> <<>>]

PlainArgv == <<"-c", "cfg", "doc">>
FileArgv == <<"-c", "cfg", "-o", "out", "doc">>

ArgvSet ==
    {PlainArgv, FileArgv,
     <<"-o", "out", "-c", "cfg", "doc">>,
     <<"-c", "cfg", "-">>,
     <<"doc">>,
     <<>>,
     <<"-c", "cfg">>,
     <<"-c">>,
     <<"-o">>,
     <<"-c", "cfg", "-c", "cfg", "doc">>,
     <<"-c", "none", "-c", "cfg", "doc">>,
     <<"-c", "cfg", "doc", "doc">>,
     <<"-o", "out", "-o", "out", "doc">>,
     <<"doc", "-c", "cfg">>}

SmallDocs ==
    {<<"[", "a", "]">>, <<"[", "]">>, <<"[", "a", "]", "[", "]">>,
     <<"[", "a", "]", "[", "a", "]">>, <<"a">>}

StdinSet ==
    {<<>>, <<"[", "a", "]">>, <<"[", "a", "]", "\n", "[", "]">>,
     <<"\n", "[", "a", "]">>, <<"[", "a", "\n", "]">>}

\* the state main starts in
MainStart ==
    /\ pc = AfterPass(1)
    /\ i = 1
    /\ citations = <<>>
    /\ lookupsDone = 0
    /\ outputPath = ""
    /\ input = <<>>
    /\ ids = <<>>
    /\ printedCitations = <<>>
    /\ output = <<>>
    /\ diag = <<>>

NoClone ==
    /\ self = JNull
    /\ other = JNull
    /\ cloned = [how |-> "none", before |-> JNull]
    /\ returned = <<>>
    /\ uri = <<>>
    /\ encoded = <<>>

\* many documents, few catalogs
InitTexts ==
    /\ argv = PlainArgv
    /\ cfgFile \in {JArr(<<WebEntry(<<>>), WebEntry(<<"a">>)>>),
                    JArr(<<WebEntry(<<"a">>), WebEntry(<<"a">>)>>),
                    JArr(<<ArticleEntry(<<"a">>)>>)}
    /\ docFile \in {Doc(t) : t \in StringsUpTo(TextChars, MaxTextLen)}
    /\ stdinData = <<>>
    /\ responses = AllOk
    /\ outOpens = TRUE

\* many configurations and lookup answers, few documents
InitConfigs ==
    /\ argv \in {PlainArgv, FileArgv}
    /\ cfgFile \in FlatConfigs
    /\ docFile \in {Doc(t) : t \in SmallDocs}
    /\ stdinData = <<>>
    /\ responses \in [1..MaxEntries -> AnswerSet]
    /\ outOpens \in BOOLEAN

\* many command lines
InitArgs ==
    /\ argv \in ArgvSet
    /\ cfgFile \in {JArr(<<WebEntry(<<"a">>)>>), JArr(<<>>), JNull,
                    [jk |-> "unreadable", jv |-> <<>>],
                    [jk |-> "malformed", jv |-> <<>>]}
    /\ docFile \in {Doc(<<"[", "a", "]">>), NoDoc}
    /\ stdinData \in StdinSet
    /\ responses = AllOk
    /\ outOpens = TRUE

Init ==
    /\ InitTexts \/ InitConfigs \/ InitArgs
    /\ MainStart
    /\ NoClone

Next ==
    \/ ArgConfig
    \/ ArgOutput
    \/ ArgInput
    \/ ArgOther
    \/ Scan
    \/ SortUnique
    \/ Resolve
    \/ WriteOutput

Spec == Init /\ [][Next]_vars

\* the runs that are followed to their end: every command line, with an
\* output file that opens or not
InitLive ==
    /\ argv \in ArgvSet
    /\ cfgFile \in {JArr(<<WebEntry(<<"a">>)>>), JArr(<<>>), JNull,
                    [jk |-> "unreadable", jv |-> <<>>],
                    [jk |-> "malformed", jv |-> <<>>]}
    /\ docFile \in {Doc(<<"[", "a", "]">>), NoDoc}
    /\ stdinData \in StdinSet
    /\ responses = AllOk
    /\ outOpens \in BOOLEAN
    /\ MainStart
    /\ NoClone

\* main is one sequential thread: it takes its next step whenever it has one
\* (every lookup returns an answer or a failure)
SpecLive == InitLive /\ [][Next]_vars /\ WF_vars(Next)

\* ------------------------------------------------------------- discovery runs
\* configuration trees: a citation or a scalar, below at most n containers
\* (arrays, objects that do not build, and citations with a further member)
RECURSIVE Trees(_)
Trees(n) ==
    IF n = 0 THEN {ArticleEntry(<<"a">>), JInt(1)}
    ELSE Trees(0) \cup UNION {
            {JArr(<<t>>),
             JArr(<<JInt(1), t>>),
             JObj([k |-> t]),
             JObj([k |-> t, m |-> ArticleEntry(<<>>)]),
             JObj([type |-> JStr(<<"article">>), id |-> JStr(<<"a">>), k |-> t]),
             JObj([type |-> JStr(<<"article">>), id |-> JStr(<<"x">>),
                   title |-> JStr(Title), author |-> JStr(<<"a", "u">>),
                   journal |-> JStr(<<"n">>), year |-> JInt(7),
                   volume |-> JInt(12), issue |-> JInt(3), k |-> t])}
            : t \in Trees(n - 1)}

InitDiscover ==
    /\ argv = PlainArgv
    /\ cfgFile \in Trees(MaxDepth)
    /\ docFile = NoDoc
    /\ stdinData = <<>>
    /\ responses = AllOk
    /\ outOpens = TRUE
    /\ MainStart
    /\ NoClone

\* the first pass of main's loop, up to the return of loadCitations
Discover ==
    /\ pc = "args"
    /\ i = 1
    /\ ArgConfig

SpecDiscover == InitDiscover /\ [][Discover]_vars

\* ------------------------------------------------------------- builder runs
\* a member that the entry does not have
Absent == [jk |-> "absent", jv |-> <<>>]

\* the object with the members of f that are present
ObjectOf(f) == JObj([key \in {k \in DOMAIN f : f[k] # Absent} |-> f[key]])

\* what an entry can hold where a string is required, and where an integer
\* is required
StringFieldValues(s) == {Absent, JStr(s), JInt(7)}
NumberFieldValues(n) == {Absent, JInt(n), JFloat(n), JStr(<<"7">>)}

ArticleEntries ==
    {ObjectOf([type |-> JStr(<<"article">>), id |-> JStr(<<"a">>),
               title |-> t, author |-> a, journal |-> jn,
               year |-> y, volume |-> v, issue |-> s]) :
        t \in StringFieldValues(Title), a \in StringFieldValues(<<"a", "u">>),
        jn \in StringFieldValues(<<"n">>), y \in NumberFieldValues(7),
        v \in NumberFieldValues(12), s \in NumberFieldValues(3)}

BookEntries ==
    {ObjectOf([type |-> JStr(<<"book">>), id |-> JStr(<<"a">>), isbn |-> n,
               author |-> a, title |-> t, publisher |-> p, year |-> y]) :
        n \in StringFieldValues(Isbn), a \in {Absent, JStr(<<"u">>)},
        t \in {Absent, JStr(Title)}, p \in {Absent, JStr(<<"n">>)},
        y \in {Absent, JStr(<<"7">>)}}

InitBuild ==
    /\ argv = PlainArgv
    /\ cfgFile \in {JArr(<<e>>) : e \in ArticleEntries \cup BookEntries}
    /\ docFile = NoDoc
    /\ stdinData = <<>>
    /\ responses \in {<<r>> : r \in AnswerSet}
    /\ outOpens = TRUE
    /\ MainStart
    /\ NoClone

SpecBuild == InitBuild /\ [][Discover]_vars

\* ------------------------------------------------------------- append runs
\* entries with every field of a book, a webpage and an article, whose type
\* and id are missing, no string, known or unknown
TypedEntries ==
    {ObjectOf([type |-> t, id |-> d, isbn |-> JStr(Isbn), url |-> JStr(Url),
               title |-> JStr(Title), author |-> JStr(<<"a", "u">>),
               journal |-> JStr(<<"n">>), year |-> JInt(7), volume |-> JInt(12),
               issue |-> JInt(3)]) :
        t \in {Absent, JInt(7), JStr(<<"book">>), JStr(<<"webpage">>),
               JStr(<<"article">>), JStr(<<"thesis">>)},
        d \in StringFieldValues(<<"u">>)}

\* a configuration array: some articles, then one of these entries
InitAppend ==
    /\ argv = PlainArgv
    /\ cfgFile \in {JArr(before \o <<e>>) :
                        before \in UNION {SeqsOfLen({ArticleEntry(<<"a">>)}, n) : n \in 0..MaxEntries},
                        e \in TypedEntries}
    /\ docFile = NoDoc
    /\ stdinData = <<>>
    /\ responses \in {<<r>> : r \in AnswerSet}
    /\ outOpens = TRUE
    /\ MainStart
    /\ NoClone

SpecAppend == InitAppend /\ [][Discover]_vars

\* ------------------------------------------------------------- Clone runs
\* what the members of a copy hold that its constructor initialises from
\* themselves (author{author}, year{year}, ...): anything
GarbageStrings == {<<>>, <<"a", "u">>}
GarbageInts == {0, 7}

\* Book::Book(const Book&) that leaves the id of the copy empty
BookCopy_EmptyId(o) == Book(<<>>, o.author, o.title, o.publisher, o.year)

\* Book::Book(const Book&)
BookCopy(o) == Book(o.id, o.author, o.title, o.publisher, o.year)

\* WebPage::WebPage(const WebPage&)
WebPageCopy(o) == WebPage(o.id, o.title, o.url)

\* Article::Article(const Article&): id, title and journal are copied from
\* other; author, year, volume and issue are initialised from themselves
ArticleCopy(o, author, year, volume, issue) ==
    Article(o.id, o.title, author, o.journal, year, volume, issue)

\* Book::Clone
BookClone ==
    /\ pc = "clone"
    /\ self.variant = "Book"
    /\ IF other.variant = "Book"
       THEN /\ self' = BookCopy(other)
            /\ cloned' = [how |-> "returned", before |-> self]
       ELSE /\ self' = self
            /\ cloned' = [how |-> "invalid_argument", before |-> self]
    /\ pc' = "cloned"
    /\ UNCHANGED <<other, returned, envVars, encodeVars>>
    /\ UNCHANGED <<i, citations, lookupsDone, outputPath, input, ids,
                   printedCitations, output, diag>>

\* WebPage::Clone
WebPageClone ==
    /\ pc = "clone"
    /\ self.variant = "WebPage"
    /\ IF other.variant = "WebPage"
       THEN /\ self' = WebPageCopy(other)
            /\ cloned' = [how |-> "returned", before |-> self]
       ELSE /\ self' = self
            /\ cloned' = [how |-> "invalid_argument", before |-> self]
    /\ pc' = "cloned"
    /\ UNCHANGED <<other, returned, envVars, encodeVars>>
    /\ UNCHANGED <<i, citations, lookupsDone, outputPath, input, ids,
                   printedCitations, output, diag>>

\* Article::Clone: the dynamic_cast to a reference throws std::bad_cast for
\* another variant; otherwise the copy made through the copy constructor is
\* assigned to self
ArticleClone ==
    /\ pc = "clone"
    /\ self.variant = "Article"
    /\ IF other.variant = "Article"
       THEN \E author \in GarbageStrings, year, volume, issue \in GarbageInts :
                /\ self' = ArticleCopy(other, author, year, volume, issue)
                /\ cloned' = [how |-> "returned", before |-> self]
       ELSE /\ self' = self
            /\ cloned' = [how |-> "bad_cast", before |-> self]
    /\ pc' = "cloned"
    /\ UNCHANGED <<other, returned, envVars, encodeVars>>
    /\ UNCHANGED <<i, citations, lookupsDone, outputPath, input, ids,
                   printedCitations, output, diag>>

RecordSet ==
    {Book(id, <<"a">>, t, <<"u">>, <<"1">>) : id \in {<<"a">>, <<>>}, t \in {Title, LookedUpTitle}}
    \cup {WebPage(id, t, Url) : id \in {<<"a">>, <<>>}, t \in {Title, LookedUpTitle}}
    \cup {Article(id, t, <<"a", "u">>, <<"n">>, 7, 12, 3) : id \in {<<"a">>, <<>>}, t \in {Title, LookedUpTitle}}
    \cup {Article(<<"a">>, Title, <<"n">>, <<"n">>, 1, 2, 3)}

InitClone ==
    /\ argv = <<>>
    /\ cfgFile = JNull
    /\ docFile = NoDoc
    /\ stdinData = <<>>
    /\ responses = AllOk
    /\ outOpens = TRUE
    /\ pc = "clone"
    /\ i = 1
    /\ citations = <<>>
    /\ lookupsDone = 0
    /\ outputPath = ""
    /\ input = <<>>
    /\ ids = <<>>
    /\ printedCitations = <<>>
    /\ output = <<>>
    /\ diag = <<>>
    /\ self \in RecordSet
    /\ other \in RecordSet
    /\ cloned = [how |-> "none", before |-> self]
    /\ returned = <<>>
    /\ uri = <<>>
    /\ encoded = <<>>

NextClone == BookClone \/ WebPageClone \/ ArticleClone

SpecClone == InitClone /\ [][NextClone]_vars

\* ------------------------------------------------------------- copy runs
\* the copy constructor of other's variant: self is the copy
CopyConstruct ==
    /\ pc = "clone"
    /\ \/ other.variant = "Book" /\ self' = BookCopy(other)
       \/ other.variant = "WebPage" /\ self' = WebPageCopy(other)
       \/ /\ other.variant = "Article"
          /\ \E author \in GarbageStrings, year, volume, issue \in GarbageInts :
                self' = ArticleCopy(other, author, year, volume, issue)
    /\ cloned' = [how |-> "copied", before |-> other]
    /\ pc' = "cloned"
    /\ UNCHANGED <<other, returned, envVars, encodeVars>>
    /\ UNCHANGED <<i, citations, lookupsDone, outputPath, input, ids,
                   printedCitations, output, diag>>

SpecCopy == InitClone /\ [][CopyConstruct]_vars

\* ------------------------------------------------------------- member call runs
\* the records of these runs: one of each variant for each of two ids
UseRecords ==
    {Book(id, <<"a">>, Title, <<"u">>, <<"1">>) : id \in {<<"a">>, <<>>}}
    \cup {WebPage(id, Title, Url) : id \in {<<"a">>, <<>>}}
    \cup {Article(id, Title, <<"a", "u">>, <<"n">>, 7, 12, 3) : id \in {<<"a">>, <<>>}}

InitUse ==
    /\ InitClone
    /\ self \in UseRecords
    /\ other \in UseRecords

\* the caller goes on after a Clone call (it caught what the call threw) and
\* chooses the argument of the next one
NextCall ==
    /\ pc = "cloned"
    /\ pc' = "clone"
    /\ other' \in UseRecords
    /\ UNCHANGED <<self, cloned, returned, envVars, encodeVars>>
    /\ UNCHANGED <<i, citations, lookupsDone, outputPath, input, ids,
                   printedCitations, output, diag>>

\* self.print(output) with a fresh stream: const, the stream takes the line
Render ==
    /\ pc = "clone"
    /\ output' = print(self)
    /\ UNCHANGED <<cloneVars, envVars, encodeVars>>
    /\ UNCHANGED <<pc, i, citations, lookupsDone, outputPath, input, ids,
                   printedCitations, diag>>

\* self.getId(): const, returns the id
GetId ==
    /\ pc = "clone"
    /\ returned' = getId(self)
    /\ UNCHANGED <<self, other, cloned, envVars, encodeVars>>
    /\ UNCHANGED <<mainVars>>

NextUse == NextClone \/ NextCall \/ Render \/ GetId

SpecUse == InitUse /\ [][NextUse]_vars

\* ------------------------------------------------------------- encoding runs
\* isalnum in the "C" locale
isalnum(c) ==
    \/ Code(c) \in 48..57
    \/ Code(c) \in 65..90
    \/ Code(c) \in 97..122

\* encodeUriComponent: std::to_string writes the two quotients in decimal
RECURSIVE encodeUriComponent(_)
encodeUriComponent(s) ==
    IF s = <<>> THEN <<>>
    ELSE LET c == Head(s)
         IN  (IF isalnum(c) \/ c = "-" \/ c = "_" \/ c = "." \/ c = "~"
              THEN <<c>>
              ELSE IF c = " " THEN <<"+">>
              ELSE <<"%">> \o IntToString(Code(c) \div 16)
                          \o IntToString(Code(c) % 16))
             \o encodeUriComponent(Tail(s))

\* the characters of the strings that are encoded
UriChars == {"a", "5", "-", " ", "!", "/", ":"}

InitEncode ==
    /\ argv = <<>>
    /\ cfgFile = JNull
    /\ docFile = NoDoc
    /\ stdinData = <<>>
    /\ responses = AllOk
    /\ outOpens = TRUE
    /\ pc = "encode"
    /\ i = 1
    /\ citations = <<>>
    /\ lookupsDone = 0
    /\ outputPath = ""
    /\ input = <<>>
    /\ ids = <<>>
    /\ printedCitations = <<>>
    /\ output = <<>>
    /\ diag = <<>>
    /\ self = JNull
    /\ other = JNull
    /\ cloned = [how |-> "none", before |-> JNull]
    /\ returned = <<>>
    /\ uri \in StringsUpTo(UriChars, MaxUriLen)
    /\ encoded = <<>>

\* a call encodeUriComponent(uri)
Encode ==
    /\ pc = "encode"
    /\ encoded' = encodeUriComponent(uri)
    /\ pc' = "encoded"
    /\ UNCHANGED <<uri, envVars, cloneVars>>
    /\ UNCHANGED <<i, citations, lookupsDone, outputPath, input, ids,
                   printedCitations, output, diag>>

SpecEncode == InitEncode /\ [][Encode]_vars

\* ------------------------------------------------------------- claims
\* the document has been read and the argument loop has ended
TextRead == pc \in {"scan", "sort", "resolve", "print", "exit0", "exit1"} /\ i > Len(argv)

Lefts(text) == FindAll(text, "[", 0)
Rights(text) == FindAll(text, "]", 0)

\* the brackets of text are correctly paired: as many "[" as "]", at least
\* one, the n-th "[" before the n-th "]" and that before the next "["
WellPaired(text) ==
    /\ Len(Lefts(text)) = Len(Rights(text))
    /\ Len(Lefts(text)) > 0
    /\ \A n \in 1..Len(Lefts(text)) :
        /\ Lefts(text)[n] < Rights(text)[n]
        /\ n < Len(Lefts(text)) => Rights(text)[n] < Lefts(text)[n + 1]

\* the substrings the bracket pairs of a well paired text enclose
Enclosed(text) ==
    {SubSeq(text, Lefts(text)[n] + 2, Rights(text)[n]) : n \in 1..Len(Lefts(text))}

Range(f) == {f[n] : n \in DOMAIN f}

StrictlyAscending(v) == \A n \in 1..(Len(v) - 1) : StrLess(v[n], v[n + 1])

CatalogIds == {getId(citations[n]) : n \in 1..Len(citations)}

\* C1: for a text with correctly paired brackets, the list handed to
\* resolution holds each distinct enclosed substring exactly once, in
\* ascending order, and nothing else.
C1_IdsAreTheSortedSet ==
    (pc = "resolve" /\ WellPaired(input)) =>
        /\ StrictlyAscending(ids)
        /\ Range(ids) = Enclosed(input)

\* C2: if a marker identifier of an accepted text has no catalog record,
\* the run fails: it never gets to write the bibliography.
C2_UnresolvedIdFails ==
    (TextRead /\ WellPaired(input) /\ ~(Enclosed(input) \subseteq CatalogIds)) =>
        (pc \notin {"print", "exit0"} /\ output = <<>>)

\* C3: if every marker identifier of an accepted text has a catalog record,
\* resolution does not fail, and it returns the records of the requested
\* ids and no other.
C3_AllPresentResolves ==
    (TextRead /\ WellPaired(input) /\ Enclosed(input) \subseteq CatalogIds) =>
        /\ pc # "exit1"
        /\ pc \in {"print", "exit0"} =>
              {getId(citations[n]) : n \in Range(printedCitations)} = Enclosed(input)

\* C4: in a successful run the reference lines are in ascending order of
\* citation id: no line of a larger id precedes a line of a smaller one.
C4_LinesAscendById ==
    pc = "exit0" =>
        \A m, n \in 1..Len(printedCitations) :
            m < n => ~StrLess(getId(citations[printedCitations[n]]),
                              getId(citations[printedCitations[m]]))

\* the stream printCitations writes to takes what is written: it is
\* std::cout or a file that opened
StreamOpen == outputPath = "" \/ outOpens

RECURSIVE Concat(_)
Concat(ss) == IF ss = <<>> THEN <<>> ELSE Head(ss) \o Concat(Tail(ss))

\* the line of each printed citation, in printed order
ReferenceLines ==
    [n \in 1..Len(printedCitations) |-> print(citations[printedCitations[n]])]

Header == "\n\nReferences:\n"

\* the text, the header and every reference line
CompleteOutput == input \o <<Header>> \o Concat(ReferenceLines)

SingleWebPage ==
    /\ cfgFile.jk = "array"
    /\ Len(cfgFile.jv) = 1
    /\ check_string(cfgFile.jv[1], "type")
    /\ cfgFile.jv[1].jv["type"].jv = <<"webpage">>
    /\ check_string(cfgFile.jv[1], "id")
    /\ check_string(cfgFile.jv[1], "title")
    /\ check_string(cfgFile.jv[1], "url")

EntryField(name) == cfgFile.jv[1].jv[name].jv

\* scenario A: one webpage entry, and a document, given last on a command
\* line that loads the configuration, whose only brackets are the marker of
\* the entry's id
ScenarioA ==
    /\ SingleWebPage
    /\ argv \in {PlainArgv, FileArgv}
    /\ docFile.readable
    /\ WellPaired(docFile.text)
    /\ Len(Lefts(docFile.text)) = 1
    /\ Enclosed(docFile.text) = {EntryField("id")}

WebPageLine(id, title, url) ==
    <<"[">> \o id \o <<"] webpage: ">> \o title \o <<". Available at ">> \o url
        \o <<"\n">>

\* the first lookup answered with status 200 and a string title
TitleLookedUp == responses[1].ok /\ check_string(responses[1].body, "title")

\* C7 as stated: in scenario A the reference line carries the title of the
\* configuration entry.
C7_ConfiguredTitlePrinted ==
    (ScenarioA /\ pc = "exit0" /\ StreamOpen) =>
        output = docFile.text \o <<Header>>
                    \o WebPageLine(EntryField("id"), EntryField("title"),
                                   EntryField("url"))

\* C7, amended: in scenario A the run fails, before any output, exactly when
\* the lookup of the url does not answer with a string title; otherwise the
\* single reference line carries the title the lookup returned.
C7_LookedUpTitlePrinted ==
    ScenarioA =>
        /\ pc = "exit1" => ~TitleLookedUp
        /\ ~TitleLookedUp => (pc \in {"args", "exit1"} /\ output = <<>>)
        /\ (pc = "exit0" /\ StreamOpen) =>
              output = docFile.text \o <<Header>>
                          \o WebPageLine(EntryField("id"),
                                         responses[1].body.jv["title"].jv,
                                         EntryField("url"))

\* scenario A printed, with a looked-up title that differs from the entry's
C7_ScenarioPrinted ==
    /\ ScenarioA
    /\ pc = "exit0"
    /\ StreamOpen
    /\ output # <<>>
    /\ responses[1].body.jv["title"].jv # EntryField("title")

\* the members of an object, the elements of an array
Children(j) == IF j.jk \in {"object", "array"} THEN Items(j) ELSE <<>>

\* j builds as a citation
Builds(j) ==
    createCitationsPointer(
        [built |-> FALSE, cits |-> <<>>, used |-> 0, exit |-> FALSE], j).built

\* the citation nodes without a citation ancestor, in document order
RECURSIVE CitationNodes(_)
RECURSIVE CitationNodesOfAll(_)
CitationNodes(j) ==
    IF j.jk = "object" /\ Builds(j) THEN <<j>> ELSE CitationNodesOfAll(Children(j))

CitationNodesOfAll(js) ==
    IF js = <<>> THEN <<>>
    ELSE CitationNodes(Head(js)) \o CitationNodesOfAll(Tail(js))

\* C8: discovery finds every citation node that has no citation ancestor,
\* at every depth and below every combination of arrays and objects.
C8_EveryCitationNodeFound ==
    (i # 1 /\ pc # "exit1") =>
        [n \in 1..Len(citations) |-> getId(citations[n])]
          = [n \in 1..Len(CitationNodes(cfgFile)) |->
                CitationNodes(cfgFile)[n].jv["id"].jv]

\* C9: Clone from a record of the same variant leaves self equal to other
\* and returns self; from another variant it fails with a type mismatch
\* error and leaves self as it was.
C9_CloneCopiesOrRejects ==
    pc = "cloned" =>
        IF cloned.before.variant = other.variant
        THEN self = other /\ cloned.how = "returned"
        ELSE self = cloned.before /\ cloned.how \in {"invalid_argument", "bad_cast"}

\* the document named last on the command line has been read
DocumentRead ==
    /\ TextRead
    /\ Len(argv) > 0
    /\ argv[Len(argv)] = "doc"
    /\ input = docFile.text

\* C10: extraction fails when the two bracket counts differ or exactly one
\* is zero; a document without any bracket is not rejected and yields the
\* text and the header with no reference line.
C10_NoBracketIsAccepted ==
    DocumentRead =>
        /\ Len(Lefts(input)) # Len(Rights(input)) => pc \in {"scan", "exit1"}
        /\ (Lefts(input) = <<>> /\ Rights(input) = <<>>) =>
              /\ pc # "exit1"
              /\ (pc = "exit0" /\ StreamOpen) => output = Append(input, Header)

\* the command line names the configuration file after a -c
ConfigNamed == \E p \in 1..(Len(argv) - 1) : argv[p] = "-c" /\ argv[p + 1] = "cfg"

\* e is an entry that is built through a lookup: a book with a string isbn
\* or a webpage with a string url
IsLookupEntry(e, type, key) ==
    /\ check_string(e, "type")
    /\ check_string(e, "id")
    /\ e.jv["type"].jv = <<type>>
    /\ check_string(e, key)

\* the entries of a flat configuration that are built through a lookup, in
\* the order of their requests
LookupEntries ==
    IF cfgFile.jk = "array"
    THEN SelectSeq(cfgFile.jv,
            LAMBDA e : IsLookupEntry(e, "book", "isbn") \/ IsLookupEntry(e, "webpage", "url"))
    ELSE <<>>

\* the answer r does not give the record of entry e: no response, a status
\* other than 200, or a required field that is missing or no string
AnswerFails(e, r) ==
    \/ ~r.ok
    \/ IF IsLookupEntry(e, "book", "isbn")
       THEN \E f \in {"author", "title", "publisher", "year"} : ~check_string(r.body, f)
       ELSE ~check_string(r.body, "title")

SomeLookupFails ==
    \E n \in 1..Len(LookupEntries) :
        n <= Len(responses) /\ AnswerFails(LookupEntries[n], responses[n])

\* the fields of the Book c are those of a complete answer
BookIsComplete(c) ==
    \E n \in 1..Len(responses) :
        /\ responses[n].ok
        /\ \A f \in {"author", "title", "publisher", "year"} :
                check_string(responses[n].body, f)
        /\ c.author = responses[n].body.jv["author"].jv
        /\ c.title = responses[n].body.jv["title"].jv
        /\ c.publisher = responses[n].body.jv["publisher"].jv
        /\ c.year = responses[n].body.jv["year"].jv

BookLine(id, author, title, publisher, year) ==
    <<"[">> \o id \o <<"] book: ">> \o author \o <<", ">> \o title \o <<", ">>
        \o publisher \o <<", ">> \o year \o <<"\n">>

\* the documented line of a Book or WebPage record
BookOrWebPageLine(c) ==
    IF c.variant = "Book"
    THEN BookLine(c.id, c.author, c.title, c.publisher, c.year)
    ELSE WebPageLine(c.id, c.title, c.url)

PrintedVariants == {citations[printedCitations[n]].variant : n \in 1..Len(printedCitations)}

\* C12: a Book is rendered as the line "[id] book: author, title,
\* publisher, year" and a WebPage as "[id] webpage: title. Available at
\* url", each with a newline: when every printed record is a Book or a
\* WebPage, what a successful run wrote after the text and the header is
\* exactly these lines.
C12_BookAndWebPageLines ==
    (pc = "exit0" /\ StreamOpen /\ PrintedVariants \subseteq {"Book", "WebPage"}) =>
        output = input \o <<Header>>
                    \o Concat([n \in 1..Len(printedCitations) |->
                                BookOrWebPageLine(citations[printedCitations[n]])])

\* a successful run that printed a Book and a WebPage
C12_BothPrinted ==
    /\ pc = "exit0"
    /\ StreamOpen
    /\ output # <<>>
    /\ PrintedVariants = {"Book", "WebPage"}

\* the documented line of an article, the author written once as a whole
ArticleLine(c) ==
    <<"[">> \o c.id \o <<"] article: ">> \o c.author \o <<", ">> \o c.title
        \o <<", ">> \o c.journal \o <<", ">> \o IntToString(c.year) \o <<", ">>
        \o IntToString(c.volume) \o <<", ">> \o IntToString(c.issue) \o <<"\n">>

\* C13: an Article is rendered as the one line "[id] article: author,
\* title, journal, year, volume, issue", the author written once as a whole:
\* when every printed record is an Article, what a successful run wrote
\* after the text and the header is exactly these lines.
C13_ArticleLineWritten ==
    (pc = "exit0" /\ StreamOpen /\ PrintedVariants = {"Article"}) =>
        output = input \o <<Header>>
                    \o Concat([n \in 1..Len(printedCitations) |->
                                ArticleLine(citations[printedCitations[n]])])

\* the single entry of the configuration array
TheEntry == cfgFile.jv[1]

\* the entry has the given type and a string id
IsEntryOfType(type) ==
    /\ check_string(TheEntry, "type")
    /\ check_string(TheEntry, "id")
    /\ TheEntry.jv["type"].jv = <<type>>

HasString(e, key) == key \in DOMAIN e.jv /\ e.jv[key].jk = "string"
HasInteger(e, key) == key \in DOMAIN e.jv /\ e.jv[key].jk = "int"

\* the -c pass over the configuration has returned
ConfigLoaded == i # 1 /\ pc # "exit1"

\* C14: an entry of type article is built only if title, author and journal
\* are strings and year, volume and issue are integers, and then the
\* Article's fields are the supplied values; if one of the six is missing or
\* of another JSON type (a number with a fractional part included), nothing
\* is added to the catalog.
C14_ArticleNeedsTypedFields ==
    (IsEntryOfType("article") /\ ConfigLoaded) =>
        IF /\ \A key \in {"title", "author", "journal"} : HasString(TheEntry, key)
           /\ \A key \in {"year", "volume", "issue"} : HasInteger(TheEntry, key)
        THEN citations =
                <<Article(TheEntry.jv["id"].jv, TheEntry.jv["title"].jv,
                          TheEntry.jv["author"].jv, TheEntry.jv["journal"].jv,
                          TheEntry.jv["year"].jv, TheEntry.jv["volume"].jv,
                          TheEntry.jv["issue"].jv)>>
        ELSE citations = <<>>

\* the book entry has author, title, publisher and year, all strings
FullySpecified ==
    \A key \in {"author", "title", "publisher", "year"} : HasString(TheEntry, key)

\* the Book of the first lookup's answer
LookedUpBook ==
    Book(TheEntry.jv["id"].jv, responses[1].body.jv["author"].jv,
         responses[1].body.jv["title"].jv, responses[1].body.jv["publisher"].jv,
         responses[1].body.jv["year"].jv)

\* C15 as stated: an entry of type book is built through the lookup when it
\* has a string isbn, and without any lookup, its fields the supplied
\* values, when it has no isbn and author, title, publisher and year.
C15_BookFromIsbnOrFields ==
    (IsEntryOfType("book") /\ ConfigLoaded) =>
        /\ HasString(TheEntry, "isbn") =>
              (lookupsDone = 1 /\ citations = <<LookedUpBook>>)
        /\ ("isbn" \notin DOMAIN TheEntry.jv /\ FullySpecified) =>
              /\ lookupsDone = 0
              /\ citations =
                    <<Book(TheEntry.jv["id"].jv, TheEntry.jv["author"].jv,
                           TheEntry.jv["title"].jv, TheEntry.jv["publisher"].jv,
                           TheEntry.jv["year"].jv)>>

\* C15, amended: an entry of type book is built only with a string isbn,
\* through one lookup, and its fields are the answer's; the run ends there
\* exactly when the lookup fails. Without a string isbn nothing is built and
\* no request is sent, whatever other fields the entry has.
C15_BookNeedsIsbn ==
    IsEntryOfType("book") =>
        IF HasString(TheEntry, "isbn")
        THEN /\ ConfigLoaded => (lookupsDone = 1 /\ citations = <<LookedUpBook>>)
             /\ pc = "exit1" <=> (lookupsDone = 1 /\ AnswerFails(TheEntry, responses[1]))
        ELSE /\ pc # "exit1"
             /\ lookupsDone = 0
             /\ citations = <<>>

\* the configuration pass returned for a fully specified book without isbn
C15_FullBookLoaded ==
    /\ IsEntryOfType("book")
    /\ ConfigLoaded
    /\ "isbn" \notin DOMAIN TheEntry.jv
    /\ FullySpecified

\* the command line read from position p by the documented rules, seen the
\* flags met so far: a flag given twice, a flag without its value, another
\* argument before the last position, or no document argument
RECURSIVE UsageErrorFrom(_, _)
UsageErrorFrom(p, seen) ==
    IF p > Len(argv) THEN TRUE
    ELSE IF argv[p] \in {"-c", "-o"}
    THEN \/ argv[p] \in seen
         \/ p = Len(argv)
         \/ UsageErrorFrom(p + 2, seen \cup {argv[p]})
    ELSE p # Len(argv)

\* C16: a command line with a flag given twice, a flag without its value, a
\* non-flag argument before the last position or no document argument ends
\* the run with failure and without output: the run never gets to resolution
\* or to the output, whatever the configuration files hold.
C16_UsageErrorIsFatal ==
    UsageErrorFrom(1, {}) =>
        /\ pc \in {"args", "scan", "exit1"}
        /\ output = <<>>

\* C17: a named output file that cannot be opened ends the run with a
\* non-zero status; status 0 is returned only with the full output written.
C17_UnopenedOutputIsFatal ==
    /\ (outputPath # "" /\ ~outOpens) => pc # "exit0"
    /\ pc = "exit0" => (output # <<>> /\ output = CompleteOutput)

\* C19: no record of the catalog has the empty id, so a text with the empty
\* marker "[]" never gets past resolution.
C19_NoEmptyIdInCatalog ==
    /\ \A n \in 1..Len(citations) : getId(citations[n]) # <<>>
    /\ (TextRead /\ WellPaired(input) /\ <<>> \in Enclosed(input)) =>
          pc \notin {"print", "exit0"}

\* the catalog positions of the records with the given id
PositionsOf(id) == {n \in 1..Len(citations) : getId(citations[n]) = id}

\* the first of them in catalog order
FirstPositionOf(id) == CHOOSE n \in PositionsOf(id) : \A m \in PositionsOf(id) : n <= m

\* C20: when a requested id has several records in the catalog and every
\* requested id is present, resolution does not fail and returns for each
\* requested id exactly one record, the first one in catalog order.
C20_FirstMatchWins ==
    (/\ TextRead
     /\ WellPaired(input)
     /\ Enclosed(input) \subseteq CatalogIds
     /\ \E id \in Enclosed(input) : Cardinality(PositionsOf(id)) > 1) =>
        /\ pc # "exit1"
        /\ pc \in {"print", "exit0"} =>
              /\ Len(printedCitations) = Cardinality(Enclosed(input))
              /\ Range(printedCitations) = {FirstPositionOf(id) : id \in Enclosed(input)}

\* a step is a Clone call that returned
CloneReturned == pc = "clone" /\ pc' = "cloned" /\ cloned'.how = "returned"

\* C18 as stated: the id of a record never changes, whatever sequence of
\* Clone, render and getId calls is made on it.
C18_IdNeverChanges == [][getId(self') = getId(self)]_vars

\* C18, amended: the id of a record is changed by nothing but a Clone call
\* that returns, and such a call leaves it equal to the id of its argument;
\* a Clone call that fails, render and getId leave the record as it was, and
\* getId returns the id the record has at the call.
C18_IdChangesOnlyByClone ==
    [][/\ CloneReturned => getId(self') = getId(other)
       /\ ~CloneReturned => self' = self
       /\ returned' # returned => returned' = getId(self)]_vars

\* getId and render were called on a record, and a later Clone gave it
\* another id
C18_IdReplacedByClone ==
    /\ pc = "cloned"
    /\ cloned.how = "returned"
    /\ getId(self) # getId(cloned.before)
    /\ returned = getId(cloned.before)
    /\ output = print(cloned.before)

\* the scan has accepted the text: main is past the bracket tests
TextAccepted == TextRead /\ pc \in {"sort", "resolve", "print", "exit0"}

\* the n-th "[" precedes the n-th "]", which precedes the next "["
PairsInOrder(text) ==
    /\ Len(Lefts(text)) = Len(Rights(text))
    /\ \A n \in 1..Len(Lefts(text)) :
        /\ Lefts(text)[n] < Rights(text)[n]
        /\ n < Len(Lefts(text)) => Rights(text)[n] < Lefts(text)[n + 1]

\* C21: every accepted text has its bracket pairs in order (a text with a
\* "]" before the "[" it is paired with, or with nested or overlapping
\* brackets, is rejected), and the identifiers extracted from it are the
\* characters strictly between each "[" and its "]".
C21_AcceptedTextIsWellFormed ==
    TextAccepted =>
        /\ PairsInOrder(input)
        /\ pc = "sort" =>
              ids = [n \in 1..Len(Lefts(input)) |->
                        SubSeq(input, Lefts(input)[n] + 2, Rights(input)[n])]

\* the citation nodes discovery is to record, in document order: a node
\* that builds, alone; otherwise those below its object-valued members and
\* below the object elements of its array-valued members
RECURSIVE RecordedNodes(_)
RECURSIVE RecordedBelowAll(_)
RecordedNodes(j) ==
    IF Builds(j) THEN <<j>>
    ELSE Concat([n \in 1..Len(Children(j)) |->
            IF Children(j)[n].jk = "object" THEN RecordedNodes(Children(j)[n])
            ELSE IF Children(j)[n].jk = "array"
            THEN RecordedBelowAll(
                    SelectSeq(Children(j)[n].jv, LAMBDA e : e.jk = "object"))
            ELSE <<>>])

RecordedBelowAll(js) ==
    IF js = <<>> THEN <<>>
    ELSE RecordedNodes(Head(js)) \o RecordedBelowAll(Tail(js))

\* C22: a node that builds as a citation is recorded exactly once and
\* nothing below it is visited; a node that does not build is not recorded
\* and discovery goes on into its object-valued fields and into the object
\* elements of its array-valued fields: the catalog holds the ids of these
\* nodes, in document order.
C22_BuiltNodesAreLeaves ==
    (i # 1 /\ pc # "exit1") =>
        [n \in 1..Len(citations) |-> getId(citations[n])]
          = [n \in 1..Len(RecordedNodes(cfgFile)) |->
                RecordedNodes(cfgFile)[n].jv["id"].jv]

\* the configuration pass returned for an array holding a citation that has
\* a citation as a member: one record
C22_NestedCitationLoaded ==
    /\ i # 1
    /\ pc # "exit1"
    /\ cfgFile.jk = "array"
    /\ Len(cfgFile.jv) = 1
    /\ Builds(cfgFile.jv[1])
    /\ "k" \in DOMAIN cfgFile.jv[1].jv
    /\ Builds(cfgFile.jv[1].jv["k"])
    /\ Len(citations) = 1

\* the last entry of the configuration array, and the number of entries
\* before it
LastEntry == cfgFile.jv[Len(cfgFile.jv)]
EntriesBefore == Len(cfgFile.jv) - 1

\* the entry lacks a string type or a string id, or its type is none of
\* book, webpage and article
NotACitation(e) ==
    \/ ~HasString(e, "type")
    \/ ~HasString(e, "id")
    \/ e.jv["type"].jv \notin {<<"book">>, <<"webpage">>, <<"article">>}

\* C23: buildCitation on an entry that lacks a string type or a string id,
\* or whose type is unknown, leaves the catalog unchanged; when it succeeds
\* it appends exactly one record, whose id is the entry's id, behind the
\* records the catalog held.
C23_BuildAppendsOneOrNone ==
    ConfigLoaded =>
        /\ Len(citations) \in {EntriesBefore, EntriesBefore + 1}
        /\ SubSeq(citations, 1, EntriesBefore) =
              [n \in 1..EntriesBefore |->
                  Article(<<"a">>, Title, <<"a", "u">>, <<"n">>, 7, 12, 3)]
        /\ NotACitation(LastEntry) => Len(citations) = EntriesBefore
        /\ Len(citations) = EntriesBefore + 1 =>
              getId(citations[Len(citations)]) = LastEntry.jv["id"].jv

\* an entry was built behind two records
C23_AppendedBehindTwo ==
    /\ ConfigLoaded
    /\ EntriesBefore = 2
    /\ Len(citations) = 3
    /\ ~NotACitation(LastEntry)

\* "[" id "]" occurs in text
OccursAsMarker(id, text) ==
    \E p \in 1..Len(text) :
        /\ p + Len(id) + 1 <= Len(text)
        /\ SubSeq(text, p, p + Len(id) + 1) = <<"[">> \o id \o <<"]">>

\* C24: every record of the reference list has an id that occurs as a
\* marker "[id]" in the text: a record the text never references is never
\* printed.
C24_PrintedIdsAreMarkers ==
    pc \in {"print", "exit0"} =>
        \A n \in 1..Len(printedCitations) :
            OccursAsMarker(getId(citations[printedCitations[n]]), input)

\* C25: in a successful run no catalog record appears twice in the
\* reference list, and the list has as many records as the text has
\* distinct marker identifiers, also when a marker is repeated.
C25_OneLinePerDistinctMarker ==
    (pc = "exit0" /\ WellPaired(input)) =>
        /\ \A m, n \in 1..Len(printedCitations) :
              m # n => printedCitations[m] # printedCitations[n]
        /\ Len(printedCitations) = Cardinality(Enclosed(input))

\* the lookup entries of the configuration whose id the document does not
\* reference
UnreferencedLookups ==
    {n \in 1..Len(LookupEntries) :
        ~OccursAsMarker(LookupEntries[n].jv["id"].jv, docFile.text)}

C27_EndsWrittenOrFailed ==
    <>[](\/ pc = "exit1"
         \/ (pc = "exit0" /\ output = CompleteOutput))

\* C28: the copy constructor of every variant yields a record equal to the
\* original in its id and in every field of the variant, and leaves the
\* original as it was.
C28_CopyEqualsOriginal ==
    (pc = "cloned" /\ cloned.how = "copied") =>
        /\ self = other
        /\ other = cloned.before

\* the document argument is "-" and the argument loop has read the text
StdinRead == TextRead /\ Len(argv) > 0 /\ argv[Len(argv)] = "-"

\* the offsets of the newlines of standard input
Newlines == FindAll(stdinData, "\n", 0)

\* the first line of standard input, without its newline
StdinFirstLine ==
    IF Newlines = <<>> THEN stdinData ELSE SubSeq(stdinData, 1, Newlines[1])

\* C29: with the document argument "-" the text is the first line of
\* standard input without its newline: the brackets of that line alone
\* decide whether the text is accepted, only its markers are resolved, and
\* the output echoes that line and nothing of the later ones.
C29_TextIsFirstStdinLine ==
    StdinRead =>
        /\ input = StdinFirstLine
        /\ pc \in {"sort", "resolve", "print", "exit0"} => ~ExtractIds(StdinFirstLine).exit
        /\ ExtractIds(StdinFirstLine).exit => pc \in {"scan", "exit1"}
        /\ pc = "sort" => ids = ExtractIds(StdinFirstLine).ids
        /\ (pc = "exit0" /\ StreamOpen) =>
              output = StdinFirstLine \o <<Header>> \o Concat(ReferenceLines)

\* a run on a standard input of two lines, each with a marker, that printed
C29_TwoLinesOnStdin ==
    /\ StdinRead
    /\ pc = "exit0"
    /\ output # <<>>
    /\ Newlines # <<>>
    /\ Lefts(stdinData) # Lefts(StdinFirstLine)

HexDigit(d) ==
    <<"0", "1", "2", "3", "4", "5", "6", "7", "8", "9", "A", "B", "C", "D", "E", "F">>[d + 1]

\* the documented encoding of one character: itself, "+" for a space, or
\* "%" and the two hexadecimal digits of its code
PercentEncoded(c) ==
    IF isalnum(c) \/ c \in {"-", "_", ".", "~"} THEN <<c>>
    ELSE IF c = " " THEN <<"+">>
    ELSE <<"%", HexDigit(Code(c) \div 16), HexDigit(Code(c) % 16)>>

\* C30: encodeUriComponent writes each alphanumeric character and each of
\* - _ . ~ as itself, a space as "+", and any other character as "%" with
\* the two hexadecimal digits of its code, so 1 or 3 characters per input
\* character; and two distinct inputs without a space give distinct outputs.
C30_PercentEncoding ==
    pc = "encoded" =>
        /\ encoded = Concat([n \in 1..Len(uri) |-> PercentEncoded(uri[n])])
        /\ Len(encoded) \in Len(uri)..(3 * Len(uri))
        /\ \A t \in StringsUpTo(UriChars \ {" "}, MaxUriLen) :
              (" " \notin Range(uri) /\ t # uri) => encodeUriComponent(t) # encoded

====
